---- MODULE Spec2Model ----
(***************************************************************************)
(* Verification model of the persistence layer of the dev-events website: *)
(*   - src/lib/mongodb.ts          connectDB, the cached connection       *)
(*   - src/database/event.model.ts Event schema and its pre-save hook     *)
(*   - src/unnamed/part_000        Booking schema and its pre-save hook   *)
(* The connection manager is modelled at the level of the JavaScript job   *)
(* queue: an await suspends the caller, and its continuation runs as a     *)
(* promise job in FIFO order.                                              *)
(***************************************************************************)
EXTENDS Integers, Sequences, FiniteSets, TLC

(***************************************************************************)
(* Bounds of the connection-manager model.                                 *)
(***************************************************************************)
MaxCallers == 4
MaxAttempts == 3
MaxDefer == 3

Callers == 1..MaxCallers
Attempts == 1..MaxAttempts

\* `null` of cached.conn / cached.promise.
NULL == 0
\* The value every successful attempt resolves to: the default connection of
\* the mongoose instance (one object for the life of the process).
CONN == 1

VARIABLES
  cachedConn,     \* cached.conn: NULL or CONN
  cachedPromise,  \* cached.promise: NULL or the attempt whose promise it holds
  outcome,        \* per attempt: state of the promise mongoose.connect() returned
  settled,        \* per attempt: state of the derived promise kept in cached.promise
  reactions,      \* per attempt: callers suspended on the (still pending) derived promise
  mq,             \* the promise job queue (FIFO)
  ctx,            \* "app" while application code runs synchronously, else "idle"
  pc,             \* per connectDB call: "idle", "await", "returned", "thrown"
  awaited,        \* per call: the attempt whose promise the call awaits
  result,         \* per call: the value the call returned
  deferred,       \* number of application jobs queued so far
  retryDue        \* history: the waiters of a failed attempt have all been
                  \* notified and connectDB has not been called since

connVars == <<cachedConn, cachedPromise, outcome, settled, reactions, mq, ctx,
              pc, awaited, result, deferred, retryDue>>

VARIABLES
  events,     \* Event collection: _id -> document
  bookings,   \* Booking collection: _id -> document
  wr,         \* per write: its position and, once finished, its outcome
  storeUp,    \* FALSE while reads of the Event collection fail
  deletes     \* number of Events deleted so far

storeVars == <<events, bookings, wr, storeUp, deletes>>
vars == <<cachedConn, cachedPromise, outcome, settled, reactions, mq, ctx,
          pc, awaited, result, deferred, retryDue, events, bookings, wr, storeUp, deletes>>

AppJob == [kind |-> "app", id |-> NULL]
ThenJob(a) == [kind |-> "then", id |-> a]
ResumeJob(c) == [kind |-> "resume", id |-> c]

\* The continuations of the calls in ws, in order.
ResumeJobs(ws) == [i \in 1..Len(ws) |-> ResumeJob(ws[i])]

ConnInit ==
  /\ cachedConn = NULL
  /\ cachedPromise = NULL
  /\ outcome = [a \in Attempts |-> "unused"]
  /\ settled = [a \in Attempts |-> "pending"]
  /\ reactions = [a \in Attempts |-> <<>>]
  /\ mq = <<>>
  /\ ctx = "idle"
  /\ pc = [c \in Callers |-> "idle"]
  /\ awaited = [c \in Callers |-> NULL]
  /\ result = [c \in Callers |-> NULL]
  /\ deferred = 0
  /\ retryDue = FALSE

\* Callers are interchangeable: they are used in index order.
NextCaller(c) == pc[c] = "idle" /\ \A d \in Callers : d < c => pc[d] # "idle"
\* Attempts are numbered in the order mongoose.connect is called.
FreshAttempt(a) == outcome[a] = "unused" /\ \A b \in Attempts : b < a => outcome[b] # "unused"

InFlight == {a \in Attempts : outcome[a] = "pending"}

(***************************************************************************)
(* The environment: tasks of the event loop, application code, the driver. *)
(***************************************************************************)
\* A task (request handler, timer) starts once the job queue has drained.
StartTask ==
  /\ ctx = "idle" /\ mq = <<>>
  /\ \E c \in Callers : pc[c] = "idle"
  /\ ctx' = "app"
  /\ UNCHANGED <<cachedConn, cachedPromise, outcome, settled, reactions, mq,
                 pc, awaited, result, deferred, retryDue>>
  /\ UNCHANGED storeVars

\* Application code queues a job of its own (a continuation, queueMicrotask).
Defer ==
  /\ ctx = "app" /\ deferred < MaxDefer
  /\ mq' = Append(mq, AppJob)
  /\ deferred' = deferred + 1
  /\ UNCHANGED <<cachedConn, cachedPromise, outcome, settled, reactions, ctx,
                 pc, awaited, result, retryDue>>
  /\ UNCHANGED storeVars

\* The synchronously running application code returns to the event loop.
EndApp ==
  /\ ctx = "app"
  /\ ctx' = "idle"
  /\ UNCHANGED <<cachedConn, cachedPromise, outcome, settled, reactions, mq,
                 pc, awaited, result, deferred, retryDue>>
  /\ UNCHANGED storeVars

\* An application job reaches the head of the queue and starts running.
RunApp ==
  /\ ctx = "idle" /\ mq # <<>> /\ Head(mq).kind = "app"
  /\ ctx' = "app"
  /\ mq' = Tail(mq)
  /\ UNCHANGED <<cachedConn, cachedPromise, outcome, settled, reactions,
                 pc, awaited, result, deferred, retryDue>>
  /\ UNCHANGED storeVars

\* The promise mongoose.connect() returned settles, between two jobs: from a
\* task of the event loop or from a job of the driver's own promise chain
\* (a rejection need not wait for I/O).  The reaction registered by .then()
\* on line 59 is queued behind the jobs already waiting.
ConnectSettles(a, ok) ==
  /\ ctx = "idle" /\ outcome[a] = "pending"
  /\ outcome' = [outcome EXCEPT ![a] = IF ok THEN "ok" ELSE "err"]
  /\ mq' = Append(mq, ThenJob(a))
  /\ UNCHANGED <<cachedConn, cachedPromise, settled, reactions, ctx,
                 pc, awaited, result, deferred, retryDue>>
  /\ UNCHANGED storeVars

(***************************************************************************)
(* connectDB                                                               *)
(***************************************************************************)
\* Lines 48-50: the cached connection is returned at once.
ReturnCached(c) ==
  /\ cachedConn # NULL
  /\ pc' = [pc EXCEPT ![c] = "returned"]
  /\ result' = [result EXCEPT ![c] = cachedConn]
  /\ UNCHANGED <<cachedConn, cachedPromise, outcome, settled, reactions, mq,
                 awaited>>

\* Line 53: a new attempt is started only when no promise is cached.
MustConnect == cachedPromise = NULL

\* Lines 53-66, up to the suspension at the await.
AwaitPromise(c) ==
  /\ cachedConn = NULL
  /\ \E a \in Attempts :
       /\ IF MustConnect
            THEN /\ FreshAttempt(a)
                 /\ outcome' = [outcome EXCEPT ![a] = "pending"]
            ELSE /\ a = cachedPromise
                 /\ UNCHANGED outcome
       /\ cachedPromise' = a
       /\ awaited' = [awaited EXCEPT ![c] = a]
       /\ IF settled[a] = "pending"
            THEN /\ reactions' = [reactions EXCEPT ![a] = Append(@, c)]
                 /\ UNCHANGED mq
            ELSE /\ mq' = Append(mq, ResumeJob(c))
                 /\ UNCHANGED reactions
  /\ pc' = [pc EXCEPT ![c] = "await"]
  /\ UNCHANGED <<cachedConn, settled, result>>

\* Application code calls connectDB(): the call runs up to its first await.
connectDB(c) ==
  /\ ctx = "app" /\ NextCaller(c)
  /\ (ReturnCached(c) \/ AwaitPromise(c))
  /\ retryDue' = FALSE
  /\ UNCHANGED <<ctx, deferred>>
  /\ UNCHANGED storeVars

\* Faulty variant of RunThen: the promise settles but the suspended calls are
\* never resumed.
RunThenDropsWaiters ==
  /\ ctx = "idle" /\ mq # <<>> /\ Head(mq).kind = "then"
  /\ LET a == Head(mq).id IN
       /\ settled' = [settled EXCEPT ![a] =
                        IF outcome[a] = "ok" THEN "fulfilled" ELSE "rejected"]
       /\ mq' = Tail(mq)
       /\ reactions' = [reactions EXCEPT ![a] = <<>>]
  /\ UNCHANGED <<cachedConn, cachedPromise, outcome, ctx, pc, awaited, result,
                 deferred, retryDue>>
  /\ UNCHANGED storeVars

\* Lines 59-61: the .then() reaction settles the promise kept in
\* cached.promise and queues the continuations of the calls suspended on it.
RunThen ==
  /\ ctx = "idle" /\ mq # <<>> /\ Head(mq).kind = "then"
  /\ LET a == Head(mq).id IN
       /\ settled' = [settled EXCEPT ![a] =
                        IF outcome[a] = "ok" THEN "fulfilled" ELSE "rejected"]
       /\ mq' = Tail(mq) \o ResumeJobs(reactions[a])
       /\ reactions' = [reactions EXCEPT ![a] = <<>>]
  /\ UNCHANGED <<cachedConn, cachedPromise, outcome, ctx, pc, awaited, result,
                 deferred, retryDue>>
  /\ UNCHANGED storeVars

\* Faulty variant of ResumeFulfilled: the connection is returned but not cached.
ResumeFulfilledUncached(c) ==
  /\ pc' = [pc EXCEPT ![c] = "returned"]
  /\ result' = [result EXCEPT ![c] = CONN]
  /\ UNCHANGED <<cachedConn, cachedPromise, retryDue>>

\* Line 66 and 73: the awaited promise was fulfilled.
ResumeFulfilled(c) ==
  /\ cachedConn' = CONN
  /\ pc' = [pc EXCEPT ![c] = "returned"]
  /\ result' = [result EXCEPT ![c] = cachedConn']
  /\ UNCHANGED <<cachedPromise, retryDue>>

\* Lines 67-71: the awaited promise was rejected.
ResumeRejected(c) ==
  /\ cachedPromise' = NULL
  /\ pc' = [pc EXCEPT ![c] = "thrown"]
  /\ retryDue' = IF \E d \in Callers \ {c} : pc[d] = "await" /\ awaited[d] = awaited[c]
                   THEN retryDue ELSE TRUE
  /\ UNCHANGED <<cachedConn, result>>

\* The continuation of a suspended connectDB call runs; the caller's own
\* continuation is queued behind it.
RunResume ==
  /\ ctx = "idle" /\ mq # <<>> /\ Head(mq).kind = "resume"
  /\ LET c == Head(mq).id IN
       IF settled[awaited[c]] = "fulfilled"
         THEN ResumeFulfilled(c)
         ELSE ResumeRejected(c)
  /\ mq' = Append(Tail(mq), AppJob)
  /\ UNCHANGED <<outcome, settled, reactions, ctx, awaited, deferred>>
  /\ UNCHANGED storeVars

ConnNext ==
  \/ StartTask
  \/ Defer
  \/ EndApp
  \/ RunApp
  \/ \E c \in Callers : connectDB(c)
  \/ \E a \in Attempts, ok \in BOOLEAN : ConnectSettles(a, ok)
  \/ RunThen
  \/ RunResume

ConnTypeOK ==
  /\ cachedConn \in {NULL, CONN}
  /\ cachedPromise \in Attempts \cup {NULL}
  /\ outcome \in [Attempts -> {"unused", "pending", "ok", "err"}]
  /\ settled \in [Attempts -> {"pending", "fulfilled", "rejected"}]
  /\ ctx \in {"idle", "app"}
  /\ pc \in [Callers -> {"idle", "await", "returned", "thrown"}]

(***************************************************************************)
(* Strings are sequences of one-character strings, so that the schema      *)
(* setters and the regular expressions of the hooks are computed.          *)
(***************************************************************************)
UpperCase == <<"A", "B", "C", "D", "E", "F", "G", "H", "I", "J", "K", "L", "M",
               "N", "O", "P", "Q", "R", "S", "T", "U", "V", "W", "X", "Y", "Z">>
LowerCase == <<"a", "b", "c", "d", "e", "f", "g", "h", "i", "j", "k", "l", "m",
               "n", "o", "p", "q", "r", "s", "t", "u", "v", "w", "x", "y", "z">>
Digits == {"0", "1", "2", "3", "4", "5", "6", "7", "8", "9"}
Range(s) == {s[i] : i \in DOMAIN s}

\* \s, \w of the regular expressions
IsSpace(ch) == ch \in {" ", "\t", "\n"}
IsWord(ch) == ch \in Range(UpperCase) \cup Range(LowerCase) \cup Digits \cup {"_"}

SetMin(S) == CHOOSE x \in S : \A y \in S : x <= y
SetMax(S) == CHOOSE x \in S : \A y \in S : x >= y

\* s from the first to the last of the positions in keep
Between(s, keep) ==
  IF keep = {} THEN <<>> ELSE SubSeq(s, SetMin(keep), SetMax(keep))

\* String.prototype.trim, and the schema option trim: true
Trim(s) == Between(s, {i \in DOMAIN s : ~IsSpace(s[i])})

ToLowerChar(ch) ==
  IF ch \in Range(UpperCase)
    THEN LowerCase[CHOOSE i \in DOMAIN UpperCase : UpperCase[i] = ch]
    ELSE ch
\* String.prototype.toLowerCase, and the schema option lowercase: true
ToLowerCase(s) == [i \in DOMAIN s |-> ToLowerChar(s[i])]

(***************************************************************************)
(* Event: slug derivation, date and time checks of the pre-save hook.      *)
(***************************************************************************)
\* .replace(/[^\w\s-]/g, "")
KeepsInSlug(ch) == IsWord(ch) \/ IsSpace(ch) \/ ch = "-"
RemoveSpecial(s) == SelectSeq(s, KeepsInSlug)

\* .replace(/[\s_-]+/g, "-")
IsSeparator(ch) == IsSpace(ch) \/ ch = "_" \/ ch = "-"
RECURSIVE CollapseSeparators(_)
CollapseSeparators(s) ==
  IF s = <<>> THEN <<>>
  ELSE IF IsSeparator(Head(s))
    THEN IF Len(s) > 1 /\ IsSeparator(s[2])
           THEN CollapseSeparators(Tail(s))
           ELSE <<"-">> \o CollapseSeparators(Tail(s))
    ELSE <<Head(s)>> \o CollapseSeparators(Tail(s))

\* .replace(/^-+|-+$/g, "")
StripHyphens(s) == Between(s, {i \in DOMAIN s : s[i] # "-"})

\* Lines 130-135: the slug derived from a title.
Slugify(title) ==
  StripHyphens(CollapseSeparators(RemoveSpecial(Trim(ToLowerCase(title)))))

\* Line 154: /^([0-1]?[0-9]|2[0-3]):[0-5][0-9]$/ .test(time)
HourMatches(h) ==
  \/ Len(h) = 1 /\ h[1] \in Digits
  \/ Len(h) = 2 /\ h[1] \in {"0", "1"} /\ h[2] \in Digits
  \/ Len(h) = 2 /\ h[1] = "2" /\ h[2] \in {"0", "1", "2", "3"}
MinuteMatches(m) ==
  Len(m) = 2 /\ m[1] \in {"0", "1", "2", "3", "4", "5"} /\ m[2] \in Digits
timeRegex(t) ==
  \E i \in DOMAIN t :
    /\ t[i] = ":"
    /\ HourMatches(SubSeq(t, 1, i - 1))
    /\ MinuteMatches(SubSeq(t, i + 1, Len(t)))

\* Lines 141-146: new Date(date) and toISOString().split("T")[0], on the
\* date strings the model supplies ("" stands for an Invalid Date).
ParseDate(d) ==
  CASE d = "2025-01-13" -> "2025-01-13"
    [] d = "2025-01-13T23:30:00-05:00" -> "2025-01-14"
    [] d = "13/01/2025" -> ""
    [] OTHER -> ""

\* Booking, lines 34-35: /^[^\s@]+@[^\s@]+\.[^\s@]+$/ .test(email)
IsEmailChar(ch) == ~IsSpace(ch) /\ ch # "@"
EmailPart(s) == Len(s) > 0 /\ \A i \in DOMAIN s : IsEmailChar(s[i])
emailRegex(e) ==
  \E i \in DOMAIN e, j \in DOMAIN e :
    /\ i < j /\ e[i] = "@" /\ e[j] = "."
    /\ EmailPart(SubSeq(e, 1, i - 1))
    /\ EmailPart(SubSeq(e, i + 1, j - 1))
    /\ EmailPart(SubSeq(e, j + 1, Len(e)))

(***************************************************************************)
(* Documents, storage and writes.  A write is a save(): the document is    *)
(* built (create) or loaded and assigned (update), validated, run through  *)
(* the pre-save hook, and then sent to storage in a second step.           *)
(***************************************************************************)
MaxWrites == 3
MaxDeletes == 1
Writers == 1..MaxWrites

Idle == [pc |-> "idle"]

StoreInit ==
  /\ events = <<>>
  /\ bookings = <<>>
  /\ wr = [w \in Writers |-> Idle]
  /\ storeUp = TRUE
  /\ deletes = 0

Init == ConnInit /\ StoreInit

\* Writes are interchangeable: they are started in index order.
NextWriter(w) == wr[w].pc = "idle" /\ \A v \in Writers : v < w => wr[v].pc # "idle"

\* The schema setters (trim, lowercase) applied when a path is assigned.
\* date and mode are kept as whole strings; the supplied ones carry no
\* surrounding white space.
Setter(f, v) ==
  CASE f = "title" -> Trim(v)
    [] f = "slug" -> Trim(ToLowerCase(v))
    [] f = "time" -> Trim(v)
    [] f = "email" -> Trim(ToLowerCase(v))
    [] OTHER -> v

SetPath(doc, f, v) == [g \in DOMAIN doc \cup {f} |-> IF g = f THEN v ELSE doc[g]]
\* doc.set(fields)
Assign(doc, fields) ==
  [g \in DOMAIN doc \cup DOMAIN fields |->
     IF g \in DOMAIN fields THEN Setter(g, fields[g]) ELSE doc[g]]
\* The paths of doc whose value differs from the stored document.
Changed(doc, stored) == {g \in DOMAIN doc : g \notin DOMAIN stored \/ doc[g] # stored[g]}
\* Storage after $set of the paths in delta.
Merge(stored, doc, delta) ==
  [g \in DOMAIN stored \cup delta |-> IF g \in delta THEN doc[g] ELSE stored[g]]
Without(f, id) == [j \in DOMAIN f \ {id} |-> f[j]]
With(f, id, v) == [j \in DOMAIN f \cup {id} |-> IF j = id THEN v ELSE f[j]]

\* Event schema, lines 32-116: required paths, the mode enum, the agenda validator.
EventModes == {"online", "offline", "hybrid"}
ValidEvent(doc) ==
  /\ {"title", "date", "time", "mode", "agenda"} \subseteq DOMAIN doc
  /\ doc.title # <<>> /\ doc.date # "" /\ doc.time # <<>>
  /\ doc.mode \in EventModes
  /\ Len(doc.agenda) > 0

\* Lines 127-161: the Event pre-save hook on a document whose modified paths
\* are mod.  err is "" when the hook calls next() without an error.
EventPreSave(doc, mod) ==
  LET d1 == IF "title" \in mod
              THEN SetPath(doc, "slug", Setter("slug", Slugify(doc.title)))
              ELSE doc
      parsed == ParseDate(d1.date)
      d2 == IF "date" \in mod THEN SetPath(d1, "date", parsed) ELSE d1
  IN IF "date" \in mod /\ parsed = ""
       THEN [err |-> "Date must be a valid date string", doc |-> d1]
     ELSE IF "time" \in mod /\ ~timeRegex(d2.time)
       THEN [err |-> "Time must be in HH:MM format (e.g., 14:30)", doc |-> d2]
     ELSE [err |-> "", doc |-> d2]

\* Faulty variant of SlugTaken: no unique index on slug.
SlugNeverTaken(id, slug) == FALSE

\* Lines 37-42 and 166: the unique index on slug rejects a write that would
\* give document id a slug another stored document has.
SlugTaken(id, slug) == \E j \in DOMAIN events \ {id} : events[j].slug = slug

EventDone(op, res, hit) ==
  [pc |-> "done", kind |-> "event", op |-> op, outcome |-> res, collided |-> hit]

\* Validation and the pre-save hook of one Event save(); stored is the
\* document as loaded (<<>> for a new one).
EventSave(w, op, id, doc, stored, mod) ==
  LET r == EventPreSave(doc, mod) IN
  wr' = [wr EXCEPT ![w] =
    IF ~ValidEvent(doc) \/ r.err # ""
      THEN EventDone(op, "ValidationError", FALSE)
      ELSE [pc |-> "pending", kind |-> "event", op |-> op, id |-> id,
            doc |-> r.doc, delta |-> Changed(r.doc, stored)]]

\* Event.create(fields): a new document, every supplied path modified.
EventCreate(w, fields) ==
  /\ NextWriter(w)
  /\ EventSave(w, "create", w, Assign(<<>>, fields), <<>>, DOMAIN fields)
  /\ UNCHANGED <<events, bookings, storeUp, deletes>>
  /\ UNCHANGED connVars

\* update(id, fields): findById, assign the fields, save().  A path is
\* modified when its assigned value differs from the loaded one.
EventUpdate(w, id, fields) ==
  /\ NextWriter(w)
  /\ id \in DOMAIN events
  /\ LET doc == Assign(events[id], fields) IN
       EventSave(w, "update", id, doc, events[id], Changed(doc, events[id]))
  /\ UNCHANGED <<events, bookings, storeUp, deletes>>
  /\ UNCHANGED connVars

\* The storage step of an Event save(): insertOne, or updateOne with $set of
\* the modified paths; the unique index is checked by the storage.
EventPersist(w) ==
  /\ wr[w].pc = "pending" /\ wr[w].kind = "event"
  /\ LET p == wr[w]
         hit == "slug" \in p.delta /\ SlugTaken(p.id, p.doc.slug)
         truly == "slug" \in p.delta
                    /\ \E j \in DOMAIN events \ {p.id} : events[j].slug = p.doc.slug
     IN IF p.delta = {}
          THEN /\ wr' = [wr EXCEPT ![w] = EventDone(p.op, "ok", truly)]
               /\ UNCHANGED events
        ELSE IF p.op = "update" /\ p.id \notin DOMAIN events
          THEN /\ wr' = [wr EXCEPT ![w] = EventDone(p.op, "DocumentNotFound", truly)]
               /\ UNCHANGED events
        ELSE IF hit
          THEN /\ wr' = [wr EXCEPT ![w] = EventDone(p.op, "ConstraintViolation", truly)]
               /\ UNCHANGED events
        ELSE /\ wr' = [wr EXCEPT ![w] = EventDone(p.op, "ok", truly)]
             /\ events' = IF p.op = "create"
                             THEN With(events, p.id, p.doc)
                             ELSE With(events, p.id, Merge(events[p.id], p.doc, p.delta))
  /\ UNCHANGED <<bookings, storeUp, deletes>>
  /\ UNCHANGED connVars

\* An Event is removed from the collection (Model.deleteOne).
EventDelete(id) ==
  /\ id \in DOMAIN events /\ deletes < MaxDeletes
  /\ events' = Without(events, id)
  /\ deletes' = deletes + 1
  /\ UNCHANGED <<bookings, wr, storeUp>>
  /\ UNCHANGED connVars

(***************************************************************************)
(* Booking                                                                 *)
(***************************************************************************)
\* Booking schema, lines 21-39: both paths required, the email validator.
ValidBooking(doc) ==
  /\ {"eventId", "email"} \subseteq DOMAIN doc
  /\ doc.eventId # NULL
  /\ doc.email # <<>> /\ emailRegex(doc.email)

\* Faulty variant of NeedsLookup: the Event is looked up on every save.
AlwaysLooksUp(mod) == TRUE

\* Line 52: this.isModified("eventId")
NeedsLookup(mod) == "eventId" \in mod

\* Faulty variant of EventFound: a missing Event passes the check.
EventFoundAlways(found) == TRUE

\* Line 56: !eventExists
EventFound(found) == found

\* Faulty variant of LookupError: an error of the lookup is swallowed.
LookupErrorSwallowed(failed) == ""

\* Lines 59-64: the catch block wraps the error of the lookup.
LookupError(failed) == IF failed THEN "ReferenceCheckFailed" ELSE ""

\* Lines 54-64: Event.findById(eventId) and what the hook makes of it:
\* "" when the Event was found, else the error passed to next().
LookupVerdict(eventId) ==
  IF LookupError(~storeUp) # "" THEN LookupError(~storeUp)
  ELSE IF ~EventFound(eventId \in DOMAIN events) THEN "ReferenceError"
  ELSE ""

\* Lines 50-68: the Booking pre-save hook.
BookingPreSave(doc, mod) ==
  IF NeedsLookup(mod)
    THEN [err |-> LookupVerdict(doc.eventId), lookups |-> 1]
    ELSE [err |-> "", lookups |-> 0]

\* What a Booking write leaves behind: its outcome, the number of lookups it
\* made, and the facts at the time of its hook (whether the write set or
\* changed eventId, whether that Event was stored, whether reads failed).
BookingNote(op, res, n, doc, stored) ==
  [kind |-> "booking", op |-> op, outcome |-> res, lookups |-> n,
   changed |-> ("eventId" \in DOMAIN doc
                 /\ ("eventId" \notin DOMAIN stored \/ doc.eventId # stored.eventId)),
   present |-> ("eventId" \in DOMAIN doc /\ doc.eventId \in DOMAIN events),
   down |-> ~storeUp,
   valid |-> ValidBooking(doc)]

\* Validation and the pre-save hook of one Booking save().
BookingSave(w, op, id, doc, stored, mod) ==
  LET r == BookingPreSave(doc, mod) IN
  wr' = [wr EXCEPT ![w] =
    IF ~ValidBooking(doc)
      THEN [pc |-> "done"] @@ BookingNote(op, "ValidationError", 0, doc, stored)
    ELSE IF r.err # ""
      THEN [pc |-> "done"] @@ BookingNote(op, r.err, r.lookups, doc, stored)
    ELSE [pc |-> "pending", id |-> id, doc |-> doc, delta |-> Changed(doc, stored)]
           @@ BookingNote(op, "", r.lookups, doc, stored)]

\* Booking.create(fields)
BookingCreate(w, fields) ==
  /\ NextWriter(w)
  /\ BookingSave(w, "create", w, Assign(<<>>, fields), <<>>, DOMAIN fields)
  /\ UNCHANGED <<events, bookings, storeUp, deletes>>
  /\ UNCHANGED connVars

\* update(id, fields): findById, assign the fields, save().
BookingUpdate(w, id, fields) ==
  /\ NextWriter(w)
  /\ id \in DOMAIN bookings
  /\ LET doc == Assign(bookings[id], fields) IN
       BookingSave(w, "update", id, doc, bookings[id], Changed(doc, bookings[id]))
  /\ UNCHANGED <<events, bookings, storeUp, deletes>>
  /\ UNCHANGED connVars

\* The storage step of a Booking save().
BookingPersist(w) ==
  /\ wr[w].pc = "pending" /\ wr[w].kind = "booking"
  /\ LET p == wr[w]
         note == [f \in {"kind", "op", "lookups", "changed", "present", "down", "valid"}
                    |-> p[f]]
     IN /\ wr' = [wr EXCEPT ![w] = [pc |-> "done", outcome |-> "ok"] @@ note]
        /\ bookings' = IF p.delta = {} THEN bookings
                        ELSE IF p.op = "create" THEN With(bookings, p.id, p.doc)
                        ELSE With(bookings, p.id, Merge(bookings[p.id], p.doc, p.delta))
  /\ UNCHANGED <<events, storeUp, deletes>>
  /\ UNCHANGED connVars

\* Reads of the Event collection start or stop failing.
ToggleStore ==
  /\ storeUp' = ~storeUp
  /\ UNCHANGED <<events, bookings, wr, deletes>>
  /\ UNCHANGED connVars

(***************************************************************************)
(* Inputs of the writes.                                                   *)
(***************************************************************************)
TitleTalk == <<"M", "y", " ", "C", "o", "o", "l", " ", "T", "a", "l", "k", "!", "!">>
TitleTalk2 == <<"m", "y", "_", "c", "o", "o", "l", " ", "-", " ", "t", "a", "l", "k">>
TitleGo == <<" ", "G", "o", "!", " ">>
TitleBlank == <<" ", " ">>
TitleInputs == {TitleTalk, TitleTalk2, TitleGo, TitleBlank}
SlugInputs == {<<" ", "V", "I", "P", " ">>, <<"g", "o">>}
TimeInputs == {<<"0", "9", ":", "0", "5">>, <<"9", ":", "0", "5">>,
               <<"2", "5", ":", "6", "1">>, <<"9", ":", "5">>}
DateInputs == {"2025-01-13", "2025-01-13T23:30:00-05:00", "13/01/2025"}
Agenda == <<"Keynote">>

TimeBase == <<"0", "9", ":", "0", "5">>
EventBase == [title |-> TitleGo, date |-> "2025-01-13", time |-> TimeBase,
              mode |-> "online", agenda |-> Agenda]
EventCreateInputs ==
  [title : TitleInputs, date : {"2025-01-13T23:30:00-05:00"}, time : TimeInputs,
   mode : {"online"}, agenda : {Agenda}]
  \cup [title : {TitleGo}, slug : SlugInputs, date : {"2025-01-13"},
        time : {TimeBase}, mode : {"online"}, agenda : {Agenda}]
  \cup {[EventBase EXCEPT !.date = "13/01/2025"],
        [EventBase EXCEPT !.mode = "virtual"], [EventBase EXCEPT !.agenda = <<>>]}
EventUpdateInputs ==
  [title : TitleInputs] \cup [slug : SlugInputs] \cup [time : TimeInputs]
  \cup [date : DateInputs] \cup [title : {TitleTalk}, slug : SlugInputs]

EmailInputs == {<<"A", "@", "b", ".", "c", " ">>, <<"d", "@", "e", ".", "f">>, <<"a", "@", "b">>}
BookingCreateInputs == [eventId : Writers, email : EmailInputs]
BookingUpdateInputs ==
  [eventId : Writers] \cup [email : EmailInputs] \cup [eventId : Writers, email : EmailInputs]

(***************************************************************************)
(* Specifications.                                                         *)
(***************************************************************************)
ConnSpec == Init /\ [][ConnNext]_vars

EventNext ==
  \/ \E w \in Writers, f \in EventCreateInputs : EventCreate(w, f)
  \/ \E w \in Writers, id \in Writers, f \in EventUpdateInputs : EventUpdate(w, id, f)
  \/ \E w \in Writers : EventPersist(w)

EventSpec == Init /\ [][EventNext]_vars

BookingNext ==
  \/ \E w \in Writers : EventCreate(w, EventBase)
  \/ \E w \in Writers : EventPersist(w)
  \/ \E id \in Writers : EventDelete(id)
  \/ \E w \in Writers, f \in BookingCreateInputs : BookingCreate(w, f)
  \/ \E w \in Writers, id \in Writers, f \in BookingUpdateInputs : BookingUpdate(w, id, f)
  \/ \E w \in Writers : BookingPersist(w)
  \/ ToggleStore

BookingSpec == Init /\ [][BookingNext]_vars

\* The event loop runs every queued job, synchronous application code
\* returns, and every connection attempt eventually settles.
ConnFairSpec ==
  /\ ConnSpec
  /\ WF_vars(RunThen) /\ WF_vars(RunResume) /\ WF_vars(RunApp) /\ WF_vars(EndApp)
  /\ \A a \in Attempts : SF_vars(\E ok \in BOOLEAN : ConnectSettles(a, ok))

(***************************************************************************)
(* Connection manager: properties.                                         *)
(***************************************************************************)
\* A connectDB call is made / a suspended call is resumed in this step.
CallStep(c) == pc[c] = "idle" /\ pc'[c] # "idle"
FailureStep(c) == pc[c] = "await" /\ pc'[c] = "thrown"
StartsAttempt == \E a \in Attempts : outcome[a] = "unused" /\ outcome'[a] # "unused"

\* C1: in every reachable state at most one connection attempt is in flight.
C1_AtMostOneAttemptInFlight == Cardinality(InFlight) <= 1

\* C3: when an attempt fails, every call waiting on it receives the failure,
\* no connection is cached, the in-flight slot is empty once the waiters
\* have been notified, and the next connectDB call made after that starts a
\* fresh attempt.
C3_FailureNotCachedAndRetried ==
  /\ [](\A c \in Callers : pc[c] = "thrown" => settled[awaited[c]] = "rejected")
  /\ [][\A c \in Callers :
         /\ (pc[c] = "await" /\ pc'[c] # "await" /\ settled[awaited[c]] = "rejected")
              => pc'[c] = "thrown"
         /\ FailureStep(c) => cachedConn' = NULL /\ cachedPromise' = NULL]_vars
  /\ [][\A c \in Callers :
         (retryDue /\ CallStep(c)) => (StartsAttempt /\ pc'[c] = "await")]_vars

\* C4: once an attempt has succeeded the cached connection never changes or
\* empties, every later connectDB call returns it without starting a new
\* attempt, and all calls that succeed return the same connection.
C4_ConnectionCachedForLife ==
  /\ [](\A c \in Callers : pc[c] = "returned" => result[c] = cachedConn /\ result[c] # NULL)
  /\ [](\A c, d \in Callers :
         (pc[c] = "returned" /\ pc[d] = "returned") => result[c] = result[d])
  /\ [][cachedConn # NULL => cachedConn' = cachedConn /\ ~StartsAttempt]_vars
  /\ [][\A c \in Callers :
         (cachedConn # NULL /\ CallStep(c))
           => pc'[c] = "returned" /\ result'[c] = cachedConn]_vars

\* C4 witness: after a successful attempt a later call was served from the cache.
C4_Witness ==
  \E c, d \in Callers :
    /\ pc[c] = "returned" /\ awaited[c] # NULL
    /\ pc[d] = "returned" /\ awaited[d] = NULL

\* C10: under the fairness of ConnFairSpec every connectDB call that is
\* waiting eventually returns a connection or throws.
C10_EveryCallCompletes ==
  \A c \in Callers : (pc[c] = "await") ~> (pc[c] \in {"returned", "thrown"})

\* C10 witness: two calls shared an attempt that failed and both threw, and a
\* call made after the failure was cleared returned a connection.
C10_Witness ==
  \E c, d, e \in Callers :
    /\ c # d /\ awaited[c] = awaited[d]
    /\ pc[c] = "thrown" /\ pc[d] = "thrown"
    /\ pc[e] = "returned" /\ awaited[e] # NULL /\ awaited[e] # awaited[c]

(***************************************************************************)
(* Event: properties.                                                      *)
(***************************************************************************)
EventWrite(w) == wr[w].pc # "idle" /\ wr[w].kind = "event"
\* Write w ends in this step.
Finishes(w) == wr[w].pc # "done" /\ wr'[w].pc = "done"

\* C5: no two stored Events share a slug; a write that would give an Event
\* the slug of another stored Event ends in ConstraintViolation and leaves
\* the Event collection unchanged, also when the writes overlap.
C5_SlugUnique ==
  /\ [](\A i, j \in DOMAIN events : i # j => events[i].slug # events[j].slug)
  /\ [](\A w \in Writers :
         (EventWrite(w) /\ wr[w].pc = "done")
           => (wr[w].collided <=> wr[w].outcome = "ConstraintViolation"))
  /\ [][\A w \in Writers :
         (Finishes(w) /\ wr'[w].outcome # "ok") => events' = events]_vars

\* C5 witness: of two overlapping creates with the same slug the one started
\* first lost to the other and ended in ConstraintViolation.
C5_Witness ==
  \E v, w \in Writers :
    /\ v < w /\ DOMAIN events = {w}
    /\ wr[w].pc = "done" /\ wr[w].op = "create" /\ wr[w].outcome = "ok"
    /\ wr[v].pc = "done" /\ wr[v].op = "create"
    /\ wr[v].outcome = "ConstraintViolation"

\* HH:MM with a two-digit hour 00-23 and a two-digit minute 00-59.
IsHHMM(t) ==
  /\ Len(t) = 5 /\ t[3] = ":"
  /\ \/ t[1] \in {"0", "1"} /\ t[2] \in Digits
     \/ t[1] = "2" /\ t[2] \in {"0", "1", "2", "3"}
  /\ t[4] \in {"0", "1", "2", "3", "4", "5"} /\ t[5] \in Digits

\* C6: every stored Event has a time of the form HH:MM, hour 00-23 and
\* minute 00-59, both of two digits.
C6_StoredTimeIsHHMM == \A id \in DOMAIN events : IsHHMM(events[id].time)

\* C8: every stored Event's slug is the slug derived from its title, and a
\* write that leaves the title alone leaves the slug alone, whatever other
\* fields it supplies.
C8_SlugFollowsTitle ==
  /\ [](\A id \in DOMAIN events : events[id].slug = Slugify(events[id].title))
  /\ [][\A id \in DOMAIN events \cap DOMAIN events' :
         events'[id].title = events[id].title => events'[id].slug = events[id].slug]_vars

(***************************************************************************)
(* Booking: properties.                                                    *)
(***************************************************************************)
BookingWrite(w) == wr[w].pc # "idle" /\ wr[w].kind = "booking"
RefErrors == {"ReferenceError", "ReferenceCheckFailed"}

\* C2: while no Event has been deleted every stored Booking references a
\* stored Event; a Booking create whose Event is absent when the lookup
\* answers ends in ReferenceError, no write whose Event is absent at its
\* check reaches storage, and a failed write leaves the Bookings unchanged.
C2_NoBookingWithoutEvent ==
  /\ [](deletes = 0 => \A b \in DOMAIN bookings : bookings[b].eventId \in DOMAIN events)
  /\ [](\A w \in Writers :
         (BookingWrite(w) /\ wr[w].valid /\ wr[w].changed /\ ~wr[w].present)
           => /\ wr[w].pc = "done"
              /\ wr[w].outcome \in RefErrors
              /\ ~wr[w].down => wr[w].outcome = "ReferenceError")
  /\ [][\A w \in Writers :
         (Finishes(w) /\ wr'[w].outcome = "ReferenceError") => bookings' = bookings]_vars

\* C2 witness: with a Booking already stored, a create that named an absent
\* Event ended in ReferenceError.
C2_Witness ==
  /\ DOMAIN bookings # {}
  /\ \E w \in Writers :
       /\ BookingWrite(w) /\ wr[w].pc = "done" /\ wr[w].op = "create"
       /\ ~wr[w].present /\ ~wr[w].down /\ wr[w].outcome = "ReferenceError"

\* C7: a Booking write whose Event lookup itself failed ends in
\* ReferenceCheckFailed, never reaches storage and changes no Booking.
C7_LookupFailureFailsClosed ==
  /\ [](\A w \in Writers :
         (BookingWrite(w) /\ wr[w].lookups > 0 /\ wr[w].down)
           => wr[w].pc = "done" /\ wr[w].outcome = "ReferenceCheckFailed")
  /\ [][\A w \in Writers :
         (Finishes(w) /\ wr'[w].outcome = "ReferenceCheckFailed") => bookings' = bookings]_vars

\* C7 witness: the Event was stored, the lookup failed, the write was refused.
C7_Witness ==
  \E w \in Writers :
    /\ BookingWrite(w) /\ wr[w].pc = "done" /\ wr[w].down /\ wr[w].present
    /\ wr[w].lookups = 1 /\ wr[w].outcome = "ReferenceCheckFailed"

\* C9 as stated: a Booking write performs the lookup exactly when it sets or
\* changes eventId (once), so every create performs it once.
C9_LookupIffEventIdChanged ==
  \A w \in Writers :
    BookingWrite(w) => wr[w].lookups = (IF wr[w].changed THEN 1 ELSE 0)

\* C9 amended: a Booking write that passes schema validation performs the
\* lookup exactly when it sets or changes eventId, and then once; a write that
\* fails validation performs none; a write that does not change eventId never
\* ends in ReferenceError or ReferenceCheckFailed.
C9_LookupIffEventIdChangedAndValid ==
  \A w \in Writers :
    BookingWrite(w) =>
      /\ wr[w].valid => wr[w].lookups = (IF wr[w].changed THEN 1 ELSE 0)
      /\ ~wr[w].valid => wr[w].lookups = 0
      /\ ~wr[w].changed => wr[w].outcome \notin RefErrors

\* C9 witness: an update that left eventId alone succeeded without a lookup
\* although its Event was gone and reads of the Event collection failed.
C9_Witness ==
  \E w \in Writers :
    /\ BookingWrite(w) /\ wr[w].pc = "done" /\ wr[w].op = "update"
    /\ ~wr[w].changed /\ ~wr[w].present /\ wr[w].down
    /\ wr[w].lookups = 0 /\ wr[w].outcome = "ok"

====
